---- MODULE Spec2Model ----
(***************************************************************************)
(* Model of src/bin/stepper/fixed_dist.rs: the single-shot pipeline of     *)
(* `main` that resolves the command line and the environment, acquires the *)
(* two GPIO pins, builds and configures the stepper and issues one         *)
(* relative drive.                                                         *)
(*                                                                         *)
(* Floating point values are carried as integers (thousandths for the      *)
(* command line's delta and omega, whole units for the environment's       *)
(* values); the program never computes with them, it only passes them on.  *)
(* Every call to a collaborator (rppal, syact) is appended to `calls` when *)
(* it is made, whether it succeeds or not.                                 *)
(***************************************************************************)
EXTENDS Integers, Sequences, FiniteSets, TLC

VARIABLES pc, cmdline, environ, pin_step, pin_dir, delta, omega,
          inertia, force, micro_opt, taken, calls, motion, exit_code, err

vars == <<pc, cmdline, environ, pin_step, pin_dir, delta, omega,
          inertia, force, micro_opt, taken, calls, motion, exit_code, err>>

(* ---------------------------- bounds ----------------------------------- *)

\* delta and omega given on the command line range over -MaxArg..MaxArg
\* and 0..MaxArg (thousandths of a radian, of a radian per second)
MaxArg == 1

(* ----------------------- values and options ---------------------------- *)

None == <<>>
Some(v) == <<v>>
IsSome(o) == Len(o) = 1
Unwrap(o) == o[1]
UnwrapOr(o, d) == IF IsSome(o) THEN o[1] ELSE d

\* core::f32::consts::PI, in thousandths
PI == 3142
DELTA_DEF == 2 * PI
OMEGA_DEF == 20000

\* Inertia::ZERO, Force::ZERO
INERTIA_ZERO == 0
FORCE_ZERO == 0

\* StepperConfig { voltage: 12.0, overload_current: None }, voltage in thousandths
VOLTAGE == 12000
StepperConfig == [voltage |-> VOLTAGE, overload_current |-> None]

\* Factor::MAX, in thousandths
FACTOR_MAX == 1000

\* exit codes of the process
NoExit == -1
EXIT_OK == 0
EXIT_ERR == 1
EXIT_USAGE == 2
EXIT_PANIC == 101

(* ------------------------- the command line ---------------------------- *)

PinVals == {17, 27}
DeltaVals == (0 - MaxArg) .. MaxArg
OmegaVals == 0 .. MaxArg

\* the positional values [pin_step] [pin_dir] [delta] [omega], a prefix of them given
Positionals ==
    {<<>>}
    \cup {<<s>> : s \in PinVals}
    \cup {<<s, d>> : s \in PinVals, d \in PinVals}
    \cup {<<s, d, x>> : s \in PinVals, d \in PinVals, x \in DeltaVals}
    \cup {<<s, d, x, w>> : s \in PinVals, d \in PinVals, x \in DeltaVals, w \in OmegaVals}

\* what clap makes of the command line: the help or version text was asked
\* for, a token is invalid, or the positionals are matched
CmdLines ==
    {[kind |-> "help", argv |-> <<>>], [kind |-> "invalid", argv |-> <<>>]}
    \cup {[kind |-> "matches", argv |-> a] : a \in Positionals}

\* matches.get_one(name): the positional at index i when it was given
get_one(i) == IF i <= Len(cmdline.argv) THEN Some(cmdline.argv[i]) ELSE None

(* -------------------------- the environment ---------------------------- *)

Digits == <<"0", "1", "2", "3", "4", "5", "6", "7", "8", "9">>
IsDigit(c) == \E i \in 1..Len(Digits) : Digits[i] = c
DigitVal(c) == (CHOOSE i \in 1..Len(Digits) : Digits[i] = c) - 1

RECURSIVE DecVal(_)
DecVal(s) == IF s = <<>> THEN 0
             ELSE 10 * DecVal(SubSeq(s, 1, Len(s) - 1)) + DigitVal(s[Len(s)])

AllDigits(s) == Len(s) > 0 /\ \A i \in 1..Len(s) : IsDigit(s[i])

\* str::parse::<u8>, as MicroSteps parses its count
ParseU8(s) == IF AllDigits(s) /\ DecVal(s) < 256 THEN Some(DecVal(s)) ELSE None

\* str::parse::<f32> on the integer literals of the model, as Inertia and Force parse
ParseF32(s) ==
    IF AllDigits(s) THEN Some(DecVal(s))
    ELSE IF Len(s) > 1 /\ s[1] = "-" /\ AllDigits(Tail(s)) THEN Some(0 - DecVal(Tail(s)))
    ELSE None

\* the strings an environment variable is set to in the model
EnvStrings == {<<>>, <<"x">>, <<"0">>, <<"1", "6">>, <<"-", "2">>}

\* a variable is unset, set to bytes that are not Unicode, or set to a string
EnvValues ==
    {[set |-> FALSE, unicode |-> TRUE, s |-> <<>>], [set |-> TRUE, unicode |-> FALSE, s |-> <<>>]}
    \cup {[set |-> TRUE, unicode |-> TRUE, s |-> x] : x \in EnvStrings}

EnvNames == {"INERTIA", "FORCE", "MICRO"}


\* mutant: the bytes of the variable are read lossily, whatever they are
env_var_lossy(name) == IF environ[name].set THEN Some(environ[name].s) ELSE None

\* std::env::var(name).ok()
env_var_ok(name) == IF environ[name].set /\ environ[name].unicode
                    THEN Some(environ[name].s) ELSE None

(* ------------------------------ state ---------------------------------- *)

Call(op, arg) == [op |-> op, arg |-> arg]

\* the positions in `calls` of the calls of op
CallIndices(op) == {i \in 1..Len(calls) : calls[i].op = op}
Called(op) == CallIndices(op) # {}
Count(op) == Cardinality(CallIndices(op))

Init ==
    /\ pc = "parse_args"
    /\ cmdline \in CmdLines
    /\ environ \in [EnvNames -> EnvValues]
    /\ pin_step = None
    /\ pin_dir = None
    /\ delta = None
    /\ omega = None
    /\ inertia = None
    /\ force = None
    /\ micro_opt = None
    /\ taken = {}
    /\ calls = <<>>
    /\ motion = "Idle"
    /\ exit_code = NoExit
    /\ err = "none"

\* the process ends with the given code and cause
Exit(code, cause) ==
    /\ pc' = "exited"
    /\ exit_code' = code
    /\ err' = cause

Goto(l) ==
    /\ pc' = l
    /\ UNCHANGED <<exit_code, err>>

\* a panic of expect/unwrap
Panic(cause) == Exit(EXIT_PANIC, cause)

\* main returns Err(..) through `?`
ReturnErr(cause) == Exit(EXIT_ERR, cause)

Locals == <<pin_step, pin_dir, delta, omega, inertia, force, micro_opt>>
Inputs == <<cmdline, environ>>

(* ----------------------------- actions --------------------------------- *)

\* command!()...get_matches()
ParseArgs ==
    /\ pc = "parse_args"
    /\ CASE cmdline.kind = "help" -> Exit(EXIT_OK, "help")
         [] cmdline.kind = "invalid" -> Exit(EXIT_USAGE, "args")
         [] OTHER -> Goto("pin_step")
    /\ UNCHANGED <<Inputs, Locals, taken, calls, motion>>


\* mutant: a missing pin_dir falls back to a pin number instead of panicking
GetPinDir_Defaulted ==
    /\ pc = "pin_dir"
    /\ pin_dir' = Some(UnwrapOr(get_one(2), 27))
    /\ Goto("delta")
    /\ UNCHANGED <<Inputs, pin_step, delta, omega, inertia, force, micro_opt, taken, calls, motion>>

\* let pin_step = *matches.get_one("pin_step").expect(..)
GetPinStep ==
    /\ pc = "pin_step"
    /\ IF IsSome(get_one(1))
       THEN pin_step' = get_one(1) /\ Goto("pin_dir")
       ELSE pin_step' = pin_step /\ Panic("pin_step")
    /\ UNCHANGED <<Inputs, pin_dir, delta, omega, inertia, force, micro_opt, taken, calls, motion>>

\* let pin_dir = *matches.get_one("pin_dir").expect(..)
GetPinDir ==
    /\ pc = "pin_dir"
    /\ IF IsSome(get_one(2))
       THEN pin_dir' = get_one(2) /\ Goto("delta")
       ELSE pin_dir' = pin_dir /\ Panic("pin_dir")
    /\ UNCHANGED <<Inputs, pin_step, delta, omega, inertia, force, micro_opt, taken, calls, motion>>


\* mutant: a negative delta is clamped to zero
ResolveDelta_Clamped ==
    /\ pc = "delta"
    /\ LET d == UnwrapOr(get_one(3), DELTA_DEF) IN delta' = Some(IF d < 0 THEN 0 ELSE d)
    /\ Goto("omega")
    /\ UNCHANGED <<Inputs, pin_step, pin_dir, omega, inertia, force, micro_opt, taken, calls, motion>>

\* let delta = Delta(*matches.get_one("delta").unwrap_or(&DELTA_DEF.0))
ResolveDelta ==
    /\ pc = "delta"
    /\ delta' = Some(UnwrapOr(get_one(3), DELTA_DEF))
    /\ Goto("omega")
    /\ UNCHANGED <<Inputs, pin_step, pin_dir, omega, inertia, force, micro_opt, taken, calls, motion>>


\* mutant: the default velocity is the 10 rad/s of the help text
ResolveOmega_HelpTextDefault ==
    /\ pc = "omega"
    /\ omega' = Some(UnwrapOr(get_one(4), OMEGA_DEF \div 2))
    /\ Goto("inertia")
    /\ UNCHANGED <<Inputs, pin_step, pin_dir, delta, inertia, force, micro_opt, taken, calls, motion>>

\* let omega = Velocity(*matches.get_one("omega").unwrap_or(&OMEGA_DEF.0))
ResolveOmega ==
    /\ pc = "omega"
    /\ omega' = Some(UnwrapOr(get_one(4), OMEGA_DEF))
    /\ Goto("inertia")
    /\ UNCHANGED <<Inputs, pin_step, pin_dir, delta, inertia, force, micro_opt, taken, calls, motion>>



\* mutant: an empty INERTIA is taken as an unset one
LoadInertia_EmptyAsUnset ==
    /\ pc = "inertia"
    /\ LET v == env_var_ok("INERTIA") IN
       IF IsSome(v) /\ Unwrap(v) # <<>> /\ ~IsSome(ParseF32(Unwrap(v)))
       THEN inertia' = inertia /\ Panic("INERTIA")
       ELSE /\ inertia' = Some(IF IsSome(v) /\ Unwrap(v) # <<>>
                               THEN Unwrap(ParseF32(Unwrap(v))) ELSE INERTIA_ZERO)
            /\ Goto("force")
    /\ UNCHANGED <<Inputs, pin_step, pin_dir, delta, omega, force, micro_opt, taken, calls, motion>>

\* mutant: a malformed INERTIA falls back to the default instead of panicking
LoadInertia_NoAbort ==
    /\ pc = "inertia"
    /\ LET v == env_var_ok("INERTIA") IN
       inertia' = Some(IF IsSome(v) /\ IsSome(ParseF32(Unwrap(v)))
                       THEN Unwrap(ParseF32(Unwrap(v))) ELSE INERTIA_ZERO)
    /\ Goto("force")
    /\ UNCHANGED <<Inputs, pin_step, pin_dir, delta, omega, force, micro_opt, taken, calls, motion>>

\* let inertia = env::var("INERTIA").ok().map(|v| v.parse().unwrap()).unwrap_or(Inertia::ZERO)
LoadInertia ==
    /\ pc = "inertia"
    /\ LET v == env_var_ok("INERTIA") IN
       IF IsSome(v) /\ ~IsSome(ParseF32(Unwrap(v)))
       THEN inertia' = inertia /\ Panic("INERTIA")
       ELSE /\ inertia' = Some(IF IsSome(v) THEN Unwrap(ParseF32(Unwrap(v))) ELSE INERTIA_ZERO)
            /\ Goto("force")
    /\ UNCHANGED <<Inputs, pin_step, pin_dir, delta, omega, force, micro_opt, taken, calls, motion>>

\* let force = env::var("FORCE").ok().map(|v| Force(v.parse().unwrap())).unwrap_or(Force::ZERO)
LoadForce ==
    /\ pc = "force"
    /\ LET v == env_var_ok("FORCE") IN
       IF IsSome(v) /\ ~IsSome(ParseF32(Unwrap(v)))
       THEN force' = force /\ Panic("FORCE")
       ELSE /\ force' = Some(IF IsSome(v) THEN Unwrap(ParseF32(Unwrap(v))) ELSE FORCE_ZERO)
            /\ Goto("micro")
    /\ UNCHANGED <<Inputs, pin_step, pin_dir, delta, omega, inertia, micro_opt, taken, calls, motion>>


\* mutant: an unset MICRO becomes a microstep count of one
LoadMicro_DefaultOne ==
    /\ pc = "micro"
    /\ LET v == env_var_ok("MICRO") IN
       IF IsSome(v) /\ ~IsSome(ParseU8(Unwrap(v)))
       THEN micro_opt' = micro_opt /\ Panic("MICRO")
       ELSE /\ micro_opt' = IF IsSome(v) THEN ParseU8(Unwrap(v)) ELSE Some(1)
            /\ Goto("gpio_new")
    /\ UNCHANGED <<Inputs, pin_step, pin_dir, delta, omega, inertia, force, taken, calls, motion>>

\* let micro_opt = env::var("MICRO").ok().map(|v| v.parse::<MicroSteps>().unwrap())
LoadMicro ==
    /\ pc = "micro"
    /\ LET v == env_var_ok("MICRO") IN
       IF IsSome(v) /\ ~IsSome(ParseU8(Unwrap(v)))
       THEN micro_opt' = micro_opt /\ Panic("MICRO")
       ELSE /\ micro_opt' = IF IsSome(v) THEN ParseU8(Unwrap(v)) ELSE None
            /\ Goto("gpio_new")
    /\ UNCHANGED <<Inputs, pin_step, pin_dir, delta, omega, inertia, force, taken, calls, motion>>


\* mutant: the step pin is not acquired, the direction pin comes first
GpioNew_SkipStepPin ==
    /\ pc = "gpio_new"
    /\ calls' = Append(calls, Call("Gpio::new", None))
    /\ \E ok \in BOOLEAN : IF ok THEN Goto("get_dir") ELSE Panic("Gpio::new")
    /\ UNCHANGED <<Inputs, Locals, taken, motion>>

\* let gpio = Gpio::new().unwrap()
GpioNew ==
    /\ pc = "gpio_new"
    /\ calls' = Append(calls, Call("Gpio::new", None))
    /\ \E ok \in BOOLEAN : IF ok THEN Goto("get_step") ELSE Panic("Gpio::new")
    /\ UNCHANGED <<Inputs, Locals, taken, motion>>

\* gpio.get(pin).unwrap().into_output(): a pin already handed out is refused,
\* any other pin may be refused by the host
GpioGet(pin, next, cause) ==
    /\ calls' = Append(calls, Call("gpio.get", Some(pin)))
    /\ \E ok \in BOOLEAN :
         IF ok /\ pin \notin taken
         THEN taken' = taken \cup {pin} /\ Goto(next)
         ELSE taken' = taken /\ Panic(cause)

\* gpio.get(pin_step).unwrap().into_output(), the first argument of GenericPWM::new
GetStepPin ==
    /\ pc = "get_step"
    /\ GpioGet(Unwrap(pin_step), "get_dir", "gpio.get(pin_step)")
    /\ UNCHANGED <<Inputs, Locals, motion>>


\* mutant: the refusal of the direction pin is dropped
GetDirPin_ErrorIgnored ==
    /\ pc = "get_dir"
    /\ calls' = Append(calls, Call("gpio.get", pin_dir))
    /\ \E ok \in BOOLEAN :
         /\ taken' = (IF ok /\ Unwrap(pin_dir) \notin taken
                      THEN taken \cup {Unwrap(pin_dir)} ELSE taken)
         /\ err' = (IF ok /\ Unwrap(pin_dir) \notin taken THEN err ELSE "gpio.get(pin_dir)")
         /\ pc' = "pwm_new"
         /\ UNCHANGED exit_code
    /\ UNCHANGED <<Inputs, Locals, motion>>

\* gpio.get(pin_dir).unwrap().into_output(), the second argument of GenericPWM::new
GetDirPin ==
    /\ pc = "get_dir"
    /\ GpioGet(Unwrap(pin_dir), "pwm_new", "gpio.get(pin_dir)")
    /\ UNCHANGED <<Inputs, Locals, motion>>


\* mutant: the error of GenericPWM::new is dropped
PwmNew_ErrorIgnored ==
    /\ pc = "pwm_new"
    /\ calls' = Append(calls, Call("GenericPWM::new", <<Unwrap(pin_step), Unwrap(pin_dir)>>))
    /\ \E ok \in BOOLEAN : /\ pc' = "stepper_new"
                           /\ err' = (IF ok THEN err ELSE "GenericPWM::new")
                           /\ UNCHANGED exit_code
    /\ UNCHANGED <<Inputs, Locals, taken, motion>>

\* GenericPWM::new(step, dir)?
PwmNew ==
    /\ pc = "pwm_new"
    /\ calls' = Append(calls, Call("GenericPWM::new", <<Unwrap(pin_step), Unwrap(pin_dir)>>))
    /\ \E ok \in BOOLEAN : IF ok THEN Goto("stepper_new") ELSE ReturnErr("GenericPWM::new")
    /\ UNCHANGED <<Inputs, Locals, taken, motion>>


\* mutant: setup follows the construction, the configuration is left out
StepperNew_SkipConfig ==
    /\ pc = "stepper_new"
    /\ calls' = Append(calls, Call("Stepper::new", None))
    /\ \E ok \in BOOLEAN : IF ok THEN Goto("setup") ELSE Panic("Stepper::new")
    /\ UNCHANGED <<Inputs, Locals, taken, motion>>

\* Stepper::new(pwm, StepperConst::MOT_17HE15_1504S).unwrap()
StepperNew ==
    /\ pc = "stepper_new"
    /\ calls' = Append(calls, Call("Stepper::new", None))
    /\ \E ok \in BOOLEAN : IF ok THEN Goto("set_config") ELSE Panic("Stepper::new")
    /\ UNCHANGED <<Inputs, Locals, taken, motion>>


\* mutant: the stepper is configured for a 24 V supply
SetConfig_OtherVoltage ==
    /\ pc = "set_config"
    /\ calls' = Append(calls, Call("set_config", Some([voltage |-> 2 * VOLTAGE, overload_current |-> None])))
    /\ Goto("setup")
    /\ UNCHANGED <<Inputs, Locals, taken, motion>>

\* stepper.set_config(StepperConfig { voltage: 12.0, overload_current: None })
SetConfig ==
    /\ pc = "set_config"
    /\ calls' = Append(calls, Call("set_config", Some(StepperConfig)))
    /\ Goto("setup")
    /\ UNCHANGED <<Inputs, Locals, taken, motion>>


\* mutant: the result of setup() is dropped
Setup_ErrorIgnored ==
    /\ pc = "setup"
    /\ calls' = Append(calls, Call("setup", None))
    /\ \E ok \in BOOLEAN : /\ pc' = "microsteps"
                           /\ err' = (IF ok THEN err ELSE "setup")
                           /\ UNCHANGED exit_code
    /\ UNCHANGED <<Inputs, Locals, taken, motion>>

\* stepper.setup()?
Setup ==
    /\ pc = "setup"
    /\ calls' = Append(calls, Call("setup", None))
    /\ \E ok \in BOOLEAN : IF ok THEN Goto("microsteps") ELSE ReturnErr("setup")
    /\ UNCHANGED <<Inputs, Locals, taken, motion>>


\* mutant: the microstep setting is never handed to the stepper
SetMicrosteps_Skipped ==
    /\ pc = "microsteps"
    /\ Goto("apply_inertia")
    /\ UNCHANGED <<Inputs, Locals, taken, calls, motion>>

\* if let Some(micro) = micro_opt { stepper.set_microsteps(micro); }
SetMicrosteps ==
    /\ pc = "microsteps"
    /\ calls' = IF IsSome(micro_opt)
                THEN Append(calls, Call("set_microsteps", micro_opt))
                ELSE calls
    /\ Goto("apply_inertia")
    /\ UNCHANGED <<Inputs, Locals, taken, motion>>

\* stepper.apply_inertia(inertia)
ApplyInertia ==
    /\ pc = "apply_inertia"
    /\ calls' = Append(calls, Call("apply_inertia", inertia))
    /\ Goto("apply_gen_force")
    /\ UNCHANGED <<Inputs, Locals, taken, motion>>


\* mutant: the result of apply_gen_force() is dropped
ApplyGenForce_ErrorIgnored ==
    /\ pc = "apply_gen_force"
    /\ calls' = Append(calls, Call("apply_gen_force", force))
    /\ \E ok \in BOOLEAN : /\ pc' = "set_velocity_max"
                           /\ err' = (IF ok THEN err ELSE "apply_gen_force")
                           /\ UNCHANGED exit_code
    /\ UNCHANGED <<Inputs, Locals, taken, motion>>

\* stepper.apply_gen_force(force)?
ApplyGenForce ==
    /\ pc = "apply_gen_force"
    /\ calls' = Append(calls, Call("apply_gen_force", force))
    /\ \E ok \in BOOLEAN : IF ok THEN Goto("set_velocity_max") ELSE ReturnErr("apply_gen_force")
    /\ UNCHANGED <<Inputs, Locals, taken, motion>>

\* stepper.set_velocity_max(omega)
SetVelocityMax ==
    /\ pc = "set_velocity_max"
    /\ calls' = Append(calls, Call("set_velocity_max", omega))
    /\ Goto("drive_rel")
    /\ motion' = "VelocityBound"
    /\ UNCHANGED <<Inputs, Locals, taken>>

\* stepper.drive_rel(delta, Factor::MAX): the future is created and awaited
DriveRel ==
    /\ pc = "drive_rel"
    /\ calls' = Append(calls, Call("drive_rel", <<Unwrap(delta), FACTOR_MAX>>))
    /\ Goto("moving")
    /\ motion' = "Moving"
    /\ UNCHANGED <<Inputs, Locals, taken>>

\* .await? resolves: the move is done, and main returns Ok(())
DriveCompleted ==
    /\ pc = "moving"
    /\ Exit(EXIT_OK, "none")
    /\ motion' = "Completed"
    /\ UNCHANGED <<Inputs, Locals, taken, calls>>


\* mutant: a faulted drive is issued once more
DriveFailed_Retry ==
    /\ pc = "moving"
    /\ motion' = "Failed"
    /\ IF Count("drive_rel") < 2 THEN Goto("drive_rel") ELSE ReturnErr("drive_rel")
    /\ UNCHANGED <<Inputs, Locals, taken, calls>>

\* mutant: the fault of the drive is dropped and main returns Ok(())
DriveFailed_ExitOk ==
    /\ pc = "moving"
    /\ motion' = "Failed"
    /\ Exit(EXIT_OK, "drive_rel")
    /\ UNCHANGED <<Inputs, Locals, taken, calls>>

\* .await? resolves: the actuator reports a fault, and main returns it
DriveFailed ==
    /\ pc = "moving"
    /\ ReturnErr("drive_rel")
    /\ motion' = "Failed"
    /\ UNCHANGED <<Inputs, Locals, taken, calls>>

Next ==
    \/ ParseArgs
    \/ GetPinStep
    \/ GetPinDir
    \/ ResolveDelta
    \/ ResolveOmega
    \/ LoadInertia
    \/ LoadForce
    \/ LoadMicro
    \/ GpioNew
    \/ GetStepPin
    \/ GetDirPin
    \/ PwmNew
    \/ StepperNew
    \/ SetConfig
    \/ Setup
    \/ SetMicrosteps
    \/ ApplyInertia
    \/ ApplyGenForce
    \/ SetVelocityMax
    \/ DriveRel
    \/ DriveCompleted
    \/ DriveFailed

Spec == Init /\ [][Next]_vars

\* main is one task of straight-line code: every statement that can run
\* does run, and the awaited drive resolves once the actuator signals its
\* completion or its fault
FairSpec == Spec /\ WF_vars(Next)

(* ------------------------------ claims --------------------------------- *)

\* the positions of the program before Gpio::new is called
PreGpio == {"parse_args", "pin_step", "pin_dir", "delta", "omega",
            "inertia", "force", "micro", "gpio_new"}

\* the variable is readable as a string that its parser rejects
Malformed(name) ==
    /\ environ[name].set
    /\ environ[name].unicode
    /\ IF name = "MICRO" THEN ~IsSome(ParseU8(environ[name].s))
                         ELSE ~IsSome(ParseF32(environ[name].s))

Unset(name) == ~environ[name].set

\* the values of the well-formed strings of the model
ValueOf(str) == CASE str = <<"0">> -> 0
                  [] str = <<"1", "6">> -> 16
                  [] str = <<"-", "2">> -> 0 - 2

WellFormed(name) ==
    /\ environ[name].set
    /\ environ[name].unicode
    /\ environ[name].s \in (IF name = "MICRO" THEN {<<"0">>, <<"1", "6">>}
                            ELSE {<<"0">>, <<"1", "6">>, <<"-", "2">>})

LastCall == calls[Len(calls)]

C2_MicrostepsBeforeVelocityMax ==
    /\ Count("set_microsteps") <= 1
    /\ \A i \in CallIndices("set_velocity_max") :
         /\ \A j \in CallIndices("set_microsteps") : j < i
         /\ IsSome(micro_opt) =>
              /\ Count("set_microsteps") = 1
              /\ \E j \in 1..(i - 1) : calls[j] = Call("set_microsteps", micro_opt)

\* C2 witness: a run with MICRO=16 has set the velocity ceiling
C2_Witness ==
    /\ micro_opt = Some(16)
    /\ Called("set_microsteps")
    /\ Called("set_velocity_max")

\* C3: drive_rel is called at most once in a run; when the drive reports a
\* fault the process has ended with that error as main's Err, and drive_rel is
\* the last call that was made.
C3_SingleDriveNoRetry ==
    /\ Count("drive_rel") <= 1
    /\ motion = "Failed" =>
         /\ pc = "exited"
         /\ err = "drive_rel"
         /\ exit_code = EXIT_ERR
         /\ Count("drive_rel") = 1
         /\ LastCall.op = "drive_rel"

\* C3 witness: the drive has reported a fault
C3_Witness ==
    /\ motion = "Failed"
    /\ pc = "exited"
    /\ Called("drive_rel")

\* C4 as claimed: the process exits with code 0 if and only if the relative
\* move completed, and every fatal error ends it with a nonzero code.
C4_ExitZeroIffMoveCompleted ==
    pc = "exited" =>
        /\ exit_code = EXIT_OK <=> motion = "Completed"
        /\ err \in {"args", "pin_step", "pin_dir", "INERTIA", "FORCE", "MICRO",
                    "Gpio::new", "gpio.get(pin_step)", "gpio.get(pin_dir)",
                    "GenericPWM::new", "Stepper::new", "setup",
                    "apply_gen_force", "drive_rel"} => exit_code # EXIT_OK

\* C4 amended: the process exits with code 0 if and only if the relative move
\* completed or the command line asked for the help or version text; every
\* fatal error ends it with a nonzero code.
C4_ExitZeroIffMoveCompletedOrHelp ==
    pc = "exited" =>
        /\ exit_code = EXIT_OK <=> (motion = "Completed" \/ cmdline.kind = "help")
        /\ cmdline.kind = "help" => calls = <<>>
        /\ err \in {"args", "pin_step", "pin_dir", "INERTIA", "FORCE", "MICRO",
                    "Gpio::new", "gpio.get(pin_step)", "gpio.get(pin_dir)",
                    "GenericPWM::new", "Stepper::new", "setup",
                    "apply_gen_force", "drive_rel"} => exit_code # EXIT_OK

\* C4 witness: the process has exited with 0 after the move was completed
C4_Witness ==
    /\ pc = "exited"
    /\ exit_code = EXIT_OK
    /\ motion = "Completed"
    /\ LastCall.op = "drive_rel"

C6_GivenValuesPassThrough ==
    /\ Len(cmdline.argv) >= 3 =>
         /\ IsSome(delta) => delta = Some(cmdline.argv[3])
         /\ \A i \in CallIndices("drive_rel") : calls[i].arg[1] = cmdline.argv[3]
    /\ Len(cmdline.argv) >= 4 =>
         /\ IsSome(omega) => omega = Some(cmdline.argv[4])
         /\ \A i \in CallIndices("set_velocity_max") : calls[i].arg = Some(cmdline.argv[4])

\* C6 witness: the drive has been issued with a negative delta and a zero omega
C6_Witness ==
    /\ Len(cmdline.argv) = 4
    /\ cmdline.argv[3] < 0
    /\ cmdline.argv[4] = 0
    /\ Called("set_velocity_max")
    /\ \E i \in CallIndices("drive_rel") : calls[i].arg[1] < 0

\* C7: each of INERTIA, FORCE and MICRO is resolved from its own variable
\* alone: unset gives zero inertia, zero force, no set_microsteps call; a
\* well-formed value is the value apply_inertia, apply_gen_force and
\* set_microsteps are called with, the latter once by the time the load is
\* applied.
C7_EnvResolvedIndependently ==
    /\ Unset("INERTIA") =>
         /\ IsSome(inertia) => inertia = Some(0)
         /\ \A i \in CallIndices("apply_inertia") : calls[i].arg = Some(0)
    /\ WellFormed("INERTIA") =>
         /\ IsSome(inertia) => inertia = Some(ValueOf(environ["INERTIA"].s))
         /\ \A i \in CallIndices("apply_inertia") :
              calls[i].arg = Some(ValueOf(environ["INERTIA"].s))
    /\ Unset("FORCE") =>
         /\ IsSome(force) => force = Some(0)
         /\ \A i \in CallIndices("apply_gen_force") : calls[i].arg = Some(0)
    /\ WellFormed("FORCE") =>
         /\ IsSome(force) => force = Some(ValueOf(environ["FORCE"].s))
         /\ \A i \in CallIndices("apply_gen_force") :
              calls[i].arg = Some(ValueOf(environ["FORCE"].s))
    /\ Unset("MICRO") =>
         /\ micro_opt = None
         /\ ~Called("set_microsteps")
    /\ WellFormed("MICRO") =>
         /\ \A i \in CallIndices("set_microsteps") :
              calls[i].arg = Some(ValueOf(environ["MICRO"].s))
         /\ Called("apply_inertia") => Count("set_microsteps") = 1

\* C7 witness: the load has been applied with all three variables unset
C7_Witness ==
    /\ \A n \in EnvNames : Unset(n)
    /\ Called("apply_inertia")
    /\ Called("apply_gen_force")
    /\ ~Called("set_microsteps")

\* C8: when pin_step or pin_dir is not on the command line, nothing is loaded
\* from the environment, no collaborator is called and no pin is claimed; the
\* run stops at the first missing pin, with a nonzero exit code unless the
\* help text was asked for.
C8_MissingPinFailsBeforeHardware ==
    Len(cmdline.argv) < 2 =>
        /\ calls = <<>>
        /\ taken = {}
        /\ inertia = None /\ force = None /\ micro_opt = None
        /\ pc \in {"parse_args", "pin_step", "exited"} \cup
                  (IF Len(cmdline.argv) = 1 THEN {"pin_dir"} ELSE {})
        /\ (pc = "exited" /\ cmdline.kind # "help" => exit_code # EXIT_OK)
        /\ (pc = "exited" /\ cmdline.kind = "matches" =>
              /\ exit_code = EXIT_PANIC
              /\ err = (IF Len(cmdline.argv) = 0 THEN "pin_step" ELSE "pin_dir"))

\* C8 witness: the run has panicked on the missing pin_dir
C8_Witness ==
    /\ Len(cmdline.argv) = 1
    /\ pc = "exited"
    /\ err = "pin_dir"
    /\ calls = <<>>

\* C9: when setup has failed the process has ended with that error, setup is
\* the last call that was made, and none of apply_inertia, apply_gen_force,
\* set_microsteps, set_velocity_max and drive_rel has been called.
C9_SetupFailureStopsPipeline ==
    err = "setup" =>
        /\ pc = "exited"
        /\ exit_code = EXIT_ERR
        /\ LastCall.op = "setup"
        /\ \A op \in {"apply_inertia", "apply_gen_force", "set_microsteps",
                      "set_velocity_max", "drive_rel"} : ~Called(op)
        /\ motion = "Idle"

\* C9 witness: setup has failed in a run that has a microstep setting
C9_Witness ==
    /\ err = "setup"
    /\ IsSome(micro_opt)
    /\ LastCall.op = "setup"

\* C10: when apply_gen_force has failed the process has ended with a nonzero
\* exit code, apply_gen_force is the last call that was made, and neither
\* set_velocity_max nor drive_rel has been called.
C10_ForceFailureAbortsBeforeMotion ==
    err = "apply_gen_force" =>
        /\ pc = "exited"
        /\ exit_code # EXIT_OK
        /\ exit_code # NoExit
        /\ LastCall.op = "apply_gen_force"
        /\ ~Called("set_velocity_max")
        /\ ~Called("drive_rel")
        /\ motion = "Idle"

\* C10 witness: apply_gen_force has failed after the load's inertia was applied
C10_Witness ==
    /\ err = "apply_gen_force"
    /\ Called("apply_inertia")
    /\ LastCall.op = "apply_gen_force"

\* the call that failed at the GPIO stage, if one did
GpioFailures == {"Gpio::new", "gpio.get(pin_step)", "gpio.get(pin_dir)"}

\* C11: when Gpio::new or the acquisition of either pin fails, the process
\* has ended with a nonzero exit code, the failed call is the last call that
\* was made, neither GenericPWM::new nor Stepper::new has been called, and no
\* pin was asked for twice after a refusal (one gpio.get per pin at most).
C11_PinFailureBuildsNoActuator ==
    /\ Count("Gpio::new") <= 1
    /\ Count("gpio.get") <= 2
    /\ err \in GpioFailures =>
         /\ pc = "exited"
         /\ exit_code = EXIT_PANIC
         /\ ~Called("GenericPWM::new")
         /\ ~Called("Stepper::new")
         /\ LastCall.op = (IF err = "Gpio::new" THEN "Gpio::new" ELSE "gpio.get")
         /\ Count("gpio.get") = (CASE err = "Gpio::new" -> 0
                                   [] err = "gpio.get(pin_step)" -> 1
                                   [] err = "gpio.get(pin_dir)" -> 2)

\* C11 witness: the step pin was refused
C11_Witness ==
    /\ err = "gpio.get(pin_step)"
    /\ pc = "exited"
    /\ calls = <<Call("Gpio::new", None), Call("gpio.get", pin_step)>>

EmptyInertia ==
    /\ environ["INERTIA"].set
    /\ environ["INERTIA"].unicode
    /\ environ["INERTIA"].s = <<>>

\* C12 as claimed: an INERTIA set to the empty string resolves to zero inertia
\* like an unset one, and the run does not abort on it.
C12_EmptyInertiaIsZero ==
    EmptyInertia =>
        /\ err # "INERTIA"
        /\ pc \notin {"parse_args", "pin_step", "pin_dir", "delta", "omega", "inertia", "exited"}
             => inertia = Some(0)

\* C12 amended: an INERTIA set to the empty string is rejected by the parser
\* like any other malformed value: the run never gets past the loading of
\* INERTIA, the inertia is never resolved, no GPIO call is made, and a run
\* that reaches the loading panics there.
C12_EmptyInertiaPanics ==
    EmptyInertia =>
        /\ inertia = None
        /\ pc \in {"parse_args", "pin_step", "pin_dir", "delta", "omega", "inertia", "exited"}
        /\ calls = <<>>
        /\ (pc = "exited" /\ IsSome(omega)) => (err = "INERTIA" /\ exit_code = EXIT_PANIC)

\* C12 witness: the loader has panicked on the empty INERTIA
C12_Witness ==
    /\ EmptyInertia
    /\ pc = "exited"
    /\ err = "INERTIA"
    /\ IsSome(omega)

\* C13: every set_config call carries 12.0 V and no current ceiling, every
\* setup call has a set_config call before it, and every drive_rel call asks
\* for the speed factor 1.0, whatever the command line and the environment.
C13_FixedConfigAndFactor ==
    /\ \A i \in CallIndices("set_config") :
         calls[i].arg = Some([voltage |-> 12000, overload_current |-> <<>>])
    /\ \A i \in CallIndices("setup") :
         \E j \in 1..(i - 1) : calls[j].op = "set_config"
    /\ \A i \in CallIndices("drive_rel") : calls[i].arg[2] = 1000

\* C13 witness: a run with delta, omega and all three variables given has
\* issued the drive
C13_Witness ==
    /\ Len(cmdline.argv) = 4
    /\ \A n \in EnvNames : environ[n].set
    /\ Called("setup")
    /\ Called("drive_rel")

\* the calls of `calls` that belong to the lifecycle `order`, in call order
RECURSIVE OpsIn(_, _)
OpsIn(cs, order) ==
    IF cs = <<>> THEN <<>>
    ELSE IF \E k \in 1..Len(order) : order[k] = cs[1].op
         THEN <<cs[1].op>> \o OpsIn(Tail(cs), order)
         ELSE OpsIn(Tail(cs), order)

PosIn(order, op) == CHOOSE k \in 1..Len(order) : order[k] = op

\* each step of `order` is called at most once and in that order, none
\* before its predecessor; set_microsteps is the one step that is left out,
\* and only when there is no microstep setting
LifecycleFollows(order) ==
    LET ops == OpsIn(calls, order) IN
    /\ \A i, j \in 1..Len(ops) : i < j => PosIn(order, ops[i]) < PosIn(order, ops[j])
    /\ \A i \in 1..Len(ops) :
         \A k \in 1..(PosIn(order, ops[i]) - 1) :
            (order[k] # "set_microsteps" \/ IsSome(micro_opt))
               => \E j \in 1..(i - 1) : ops[j] = order[k]
    /\ ~IsSome(micro_opt) => \A i \in 1..Len(ops) : ops[i] # "set_microsteps"

\* C14 as claimed: constructed, configured, set up, load applied, microstep
\* applied, velocity ceiling set, driven, the load before the microstep
\* setting.
C14_LifecycleLoadBeforeMicrostep ==
    LifecycleFollows(<<"Stepper::new", "set_config", "setup", "apply_inertia",
                       "apply_gen_force", "set_microsteps", "set_velocity_max",
                       "drive_rel">>)

\* C14 amended: constructed, configured, set up, microstep applied (when
\* there is a setting), load applied (apply_inertia, apply_gen_force),
\* velocity ceiling set, driven, each step at most once and none before its
\* predecessor; the microstep setting is applied before the load.
C14_LifecycleMicrostepBeforeLoad ==
    LifecycleFollows(<<"Stepper::new", "set_config", "setup", "set_microsteps",
                       "apply_inertia", "apply_gen_force", "set_velocity_max",
                       "drive_rel">>)

\* C14 witness: a run with a microstep setting has gone through the whole
\* lifecycle
C14_Witness ==
    /\ IsSome(micro_opt)
    /\ OpsIn(calls, <<"set_microsteps", "apply_inertia", "drive_rel">>)
         = <<"set_microsteps", "apply_inertia", "drive_rel">>

\* the steps of the motion executor's state machine
MotionSteps == {<<"Idle", "VelocityBound">>, <<"VelocityBound", "Moving">>,
                <<"Moving", "Completed">>, <<"Moving", "Failed">>}

\* C15: the motion state only moves Idle -> VelocityBound -> Moving ->
\* Completed | Failed; set_velocity_max is called only after setup and
\* apply_gen_force were called and did not fail, drive_rel only after
\* set_velocity_max; Completed and Failed are left by no step and the
\* process has ended in them; and with the drive resolving, every run
\* ends with the exit of the process.
C15_MotionExecutorTerminates ==
    /\ [][motion' # motion => <<motion, motion'>> \in MotionSteps]_vars
    /\ [][pc = "exited" => UNCHANGED vars]_vars
    /\ [](motion \in {"Completed", "Failed"} => pc = "exited")
    /\ [](\A i \in CallIndices("set_velocity_max") :
            /\ \E j \in 1..(i - 1) : calls[j].op = "setup"
            /\ \E j \in 1..(i - 1) : calls[j].op = "apply_gen_force"
            /\ err \notin {"setup", "apply_gen_force"})
    /\ [](\A i \in CallIndices("drive_rel") :
            \E j \in 1..(i - 1) : calls[j].op = "set_velocity_max")
    /\ [](motion = "Idle" <=> ~Called("set_velocity_max"))
    /\ <>(pc = "exited")

\* C15 witness: a run with a microstep setting has completed its move and
\* the process has exited
C15_Witness ==
    /\ motion = "Completed"
    /\ pc = "exited"
    /\ Count("set_velocity_max") = 1
    /\ IsSome(micro_opt)

\* the number of calls made, set_microsteps left out, by the time the stage
\* named by err has failed
FailedStageCalls ==
    [x \in {"args", "pin_step", "pin_dir", "INERTIA", "FORCE", "MICRO"} |-> 0]
    @@ ("Gpio::new" :> 1) @@ ("gpio.get(pin_step)" :> 2) @@ ("gpio.get(pin_dir)" :> 3)
    @@ ("GenericPWM::new" :> 4) @@ ("Stepper::new" :> 5) @@ ("setup" :> 7)
    @@ ("apply_gen_force" :> 9) @@ ("drive_rel" :> 11)

\* C16: once a stage has failed the process has ended with a nonzero exit
\* code, the calls made are those of the stages up to the failing one, each
\* made once, and the failing call is the last; an exit with code 0 follows no
\* failure.
C16_FailStop ==
    /\ err \notin {"none", "help"} =>
         /\ pc = "exited"
         /\ exit_code \in {EXIT_ERR, EXIT_USAGE, EXIT_PANIC}
         /\ Len(calls) - Count("set_microsteps") = FailedStageCalls[err]
         /\ FailedStageCalls[err] > 0 =>
              LastCall.op = (IF FailedStageCalls[err] \in {2, 3} THEN "gpio.get" ELSE err)
    /\ \A op \in {calls[i].op : i \in 1..Len(calls)} :
         Count(op) <= (IF op = "gpio.get" THEN 2 ELSE 1)
    /\ exit_code = EXIT_OK => err \in {"none", "help"}

\* C16 witness: the signal generator has refused the pins
C16_Witness ==
    /\ err = "GenericPWM::new"
    /\ pc = "exited"
    /\ exit_code = EXIT_ERR
    /\ Len(calls) = 4

NotUnicode(name) == environ[name].set /\ ~environ[name].unicode

\* C17: a variable that is set to bytes that are not Unicode is resolved like
\* an unset one: it never is the cause of the exit, INERTIA and FORCE resolve
\* to zero and are applied as zero, MICRO resolves to no setting and
\* set_microsteps is not called.
C17_NotUnicodeIsUnset ==
    /\ \A n \in EnvNames : NotUnicode(n) => err # n
    /\ NotUnicode("INERTIA") =>
         /\ IsSome(inertia) => inertia = Some(0)
         /\ \A i \in CallIndices("apply_inertia") : calls[i].arg = Some(0)
    /\ NotUnicode("FORCE") =>
         /\ IsSome(force) => force = Some(0)
         /\ \A i \in CallIndices("apply_gen_force") : calls[i].arg = Some(0)
    /\ NotUnicode("MICRO") =>
         /\ micro_opt = None
         /\ ~Called("set_microsteps")
    /\ (\A n \in EnvNames : NotUnicode(n)) =>
         (pc = "gpio_new" => inertia = Some(0) /\ force = Some(0) /\ micro_opt = None)

\* C17 witness: with all three variables not Unicode the pins were acquired
\* and the move was completed
C17_Witness ==
    /\ \A n \in EnvNames : NotUnicode(n)
    /\ Count("gpio.get") = 2
    /\ motion = "Completed"
    /\ exit_code = EXIT_OK

\* C18: the first gpio.get is for pin_step, the second for pin_dir, and
\* GenericPWM::new is called after both, equal pins included; the second
\* claim of one pin is refused; when the direction pin is refused the step
\* pin is claimed, the process has panicked, and neither GenericPWM::new nor
\* Stepper::new has been called.
C18_StepPinClaimedBeforeDirPin ==
    LET gets == CallIndices("gpio.get") IN
    /\ \A i \in gets : calls[i].arg = (IF \E j \in gets : j < i THEN pin_dir ELSE pin_step)
    /\ \A i \in CallIndices("GenericPWM::new") :
         /\ Cardinality({j \in gets : j < i}) = 2
         /\ taken = {Unwrap(pin_step), Unwrap(pin_dir)}
         /\ pin_step # pin_dir
    /\ (Cardinality(gets) = 2 /\ pin_step = pin_dir) => err = "gpio.get(pin_dir)"
    /\ err = "gpio.get(pin_dir)" =>
         /\ taken = {Unwrap(pin_step)}
         /\ pc = "exited"
         /\ exit_code = EXIT_PANIC
         /\ ~Called("GenericPWM::new")
         /\ ~Called("Stepper::new")

\* C18 witness: pin_dir equals pin_step and its acquisition was refused with
\* the step pin claimed
C18_Witness ==
    /\ pin_step = pin_dir
    /\ err = "gpio.get(pin_dir)"
    /\ taken = {Unwrap(pin_step)}
    /\ Count("gpio.get") = 2

====
